---- MODULE Spec2Model ----
(***************************************************************************)
(* The company views of django-contacts (contacts/views/company.py): the   *)
(* paginated list, detail, create, update and delete handlers, over the    *)
(* persisted Company records and their phone, email, website and address   *)
(* sub-records.  One request is handled to completion per step.            *)
(***************************************************************************)
EXTENDS Integers, Sequences, FiniteSets, TLC

(* Largest primary key the create view hands out in the model. *)
MaxPk == 2

(* Largest number of companies the list view is checked over. *)
MaxCompanies == 41

(* Longest page argument, in characters, given to the list view. *)
MaxPageLen == 2

(* Paginator(company_list, 20) *)
per_page == 20

VARIABLES
    companies,  \* Company table: pk -> the company's name and sub-records
    next_pk,    \* the next primary key the table assigns
    request,    \* the request being handled
    response,   \* what the view returned (or raised)
    messages,   \* notifications added to the request by messages.success
    calls       \* the store/form calls the handler made, in order

vars == <<companies, next_pk, request, response, messages, calls>>

-----------------------------------------------------------------------------
(* Values *)

Absent == "<absent>"     \* a key that is not in request.POST
None == <<>>             \* Python None; a number n is <<n>>
NoRecords == "<none>"    \* a company without sub-records of some kind

Permissions == {"contacts.add_company", "contacts.change_company",
                "contacts.delete_company"}
(* a user is the set of permissions it holds; each user here lacks one *)
Users == {Permissions \ {p} : p \in Permissions}

Methods == {"GET", "POST"}

Forms == <<"form", "phone_formset", "email_formset", "website_formset",
           "address_formset">>

FieldOf(f) ==
    CASE f = "form" -> "name"
      [] f = "phone_formset" -> "phone"
      [] f = "email_formset" -> "email"
      [] f = "website_formset" -> "website"
      [] f = "address_formset" -> "address"

CreateNames == {"", "Acme"}
Confirmations == {"Yes", "yes", "No"}

EmptyPOST ==
    [name |-> Absent, phone |-> Absent, email |-> Absent, website |-> Absent,
     address |-> Absent, delete_company |-> Absent]

CreatePOSTs == {[EmptyPOST EXCEPT !.name = n] : n \in CreateNames \cup {Absent}}

(* a submission of the update page in which every form and formset is valid *)
ValidUpdatePOST ==
    [name |-> "Bolt", phone |-> "new", email |-> "new", website |-> "new",
     address |-> "new", delete_company |-> Absent]

InvalidValue(field) == IF field = "name" THEN "" ELSE "bad"

(* the valid submission, and the two in which the first or the last of the
   five parts is invalid *)
UpdatePOSTs ==
    {ValidUpdatePOST}
    \cup {[ValidUpdatePOST EXCEPT ![FieldOf(Forms[i])] = InvalidValue(FieldOf(Forms[i]))] :
             i \in {1, Len(Forms)}}

DeletePOSTs ==
    {[EmptyPOST EXCEPT !.delete_company = c] : c \in Confirmations \cup {Absent}}

PageChars == {"-", "0", "1", "2", "3"}

RECURSIVE Texts(_)
Texts(n) ==
    IF n = 0 THEN {<<>>}
    ELSE Texts(n - 1) \cup
         {Append(t, c) : t \in {u \in Texts(n - 1) : Len(u) = n - 1}, c \in PageChars}

PageTexts == Texts(MaxPageLen)

Pks == 1..(MaxPk + 1)

NoContext == [empty |-> TRUE]

-----------------------------------------------------------------------------
(* The Company table *)

NewCompany(name) ==
    [name |-> name, phone |-> NoRecords, email |-> NoRecords,
     website |-> NoRecords, address |-> NoRecords]

(* Company.objects.all(): the rows in primary-key order; every key the table
   has assigned is below its counter *)
objects_all(table, counter) ==
    SelectSeq([k \in 1..(counter - 1) |-> k], LAMBDA k : k \in DOMAIN table)

(* Company.objects.get(pk__iexact=pk) finds a row or raises DoesNotExist *)
DoesNotExist(table, pk) == pk \notin DOMAIN table

(* company.delete(): the row and, by cascade, its sub-records *)
company_delete(table, pk) == [k \in DOMAIN table \ {pk} |-> table[k]]

(* c.get_absolute_url() / reverse(...) *)
get_absolute_url(pk) == <<"contacts_company_detail", pk>>
list_url == <<"contacts_company_list">>
NoUrl == <<>>

(* any permission at all lets the user in *)
has_perm_any(user, perm) == user # {}

(* user.has_perm(perm) *)
has_perm(user, perm) == perm \in user

-----------------------------------------------------------------------------
(* django.core.paginator over the company list *)

Digits == {"0", "1", "2", "3", "4", "5", "6", "7", "8", "9"}

DigitValue(c) ==
    CASE c = "0" -> 0 [] c = "1" -> 1 [] c = "2" -> 2 [] c = "3" -> 3 [] c = "4" -> 4
      [] c = "5" -> 5 [] c = "6" -> 6 [] c = "7" -> 7 [] c = "8" -> 8 [] c = "9" -> 9

RECURSIVE DigitsValue(_)
DigitsValue(t) ==
    IF t = <<>> THEN 0
    ELSE 10 * DigitsValue(SubSeq(t, 1, Len(t) - 1)) + DigitValue(t[Len(t)])

(* int(number): an optional sign, then one or more digits; ValueError otherwise *)
ParseInt(t) ==
    LET signed == Len(t) > 0 /\ t[1] = "-"
        body == IF signed THEN Tail(t) ELSE t
        ok == Len(body) > 0 /\ \A i \in 1..Len(body) : body[i] \in Digits
    IN  [ok |-> ok,
         n |-> IF ~ok THEN 0
               ELSE IF signed THEN 0 - DigitsValue(body) ELSE DigitsValue(body)]

(* Paginator.num_pages, allow_empty_first_page=True, orphans=0 *)
num_pages(count) ==
    LET hits == IF count > 1 THEN count ELSE 1
    IN  (hits + per_page - 1) \div per_page

(* Paginator.validate_number on an integer *)
validate_int(number, count) ==
    IF number < 1 THEN "EmptyPage"
    ELSE IF number > num_pages(count) /\ ~(number = 1) THEN "EmptyPage"
    ELSE "ok"

(* Paginator.validate_number on the page argument of the URL *)
validate_number(text, count) ==
    IF ~ParseInt(text).ok THEN "PageNotAnInteger"
    ELSE validate_int(ParseInt(text).n, count)

(* Paginator.page(number).object_list: object_list[bottom:top] *)
page_object_list(object_list, number) ==
    LET count == Len(object_list)
        bottom == (number - 1) * per_page
        top == IF bottom + per_page >= count THEN count ELSE bottom + per_page
    IN  SubSeq(object_list, bottom + 1, top)

has_next(number, count) == number < num_pages(count)
has_previous(number) == number > 1
has_other_pages(number, count) == has_previous(number) \/ has_next(number, count)

start_index(number, count) ==
    IF count = 0 THEN 0 ELSE per_page * (number - 1) + 1

(* the last page is taken to be full *)
end_index_full(number, count) == number * per_page

end_index(number, count) ==
    IF number = num_pages(count) THEN count ELSE number * per_page

(* companies.previous_page_number(): the Page validates number - 1 and raises
   InvalidPage before the first page; the except branch stores None
   (lines 34-37) *)
previous_page_number(number, count) ==
    IF validate_int(number - 1, count) = "ok" THEN <<number - 1>> ELSE None

(* companies.next_page_number(): the Page validates number + 1 and raises
   InvalidPage past the last page; the except branch stores None
   (lines 38-41) *)
next_page_number(number, count) ==
    IF validate_int(number + 1, count) = "ok" THEN <<number + 1>> ELSE None

(* the fallback shows the first page *)
shown_page_first(text, count) ==
    IF validate_number(text, count) = "ok" THEN ParseInt(text).n ELSE 1

(* companies = paginator.page(page), or on EmptyPage/InvalidPage
   paginator.page(paginator.num_pages); 0 when that second call raises too *)
shown_page(text, count) ==
    IF validate_number(text, count) = "ok" THEN ParseInt(text).n
    ELSE IF validate_int(num_pages(count), count) = "ok" THEN num_pages(count)
    ELSE 0

list_kwvars(table, counter, text) ==
    LET company_list == objects_all(table, counter)
        count == Len(company_list)
        number == shown_page(text, count)
    IN  [object_list |-> page_object_list(company_list, number),
         has_next |-> has_next(number, count),
         has_previous |-> has_previous(number),
         has_other_pages |-> has_other_pages(number, count),
         start_index |-> start_index(number, count),
         end_index |-> end_index(number, count),
         previous_page_number |-> previous_page_number(number, count),
         next_page_number |-> next_page_number(number, count)]

-----------------------------------------------------------------------------
(* Requests and responses *)

Request(view, user, method, pk, POST, page) ==
    [view |-> view, user |-> user, method |-> method, pk |-> pk,
     POST |-> POST, page |-> page]

NoRequest == Request("none", {}, "GET", 0, EmptyPOST, <<>>)

Response(kind, url, template, context) ==
    [kind |-> kind, url |-> url, template |-> template, context |-> context]

NoResponse == Response("none", NoUrl, "", NoContext)
HttpResponseForbidden == Response("forbidden", NoUrl, "", NoContext)
(* Company.DoesNotExist leaves the view uncaught *)
DoesNotExist_uncaught == Response("exception", NoUrl, "DoesNotExist", NoContext)

(* raise Http404 *)
Http404 == Response("Http404", NoUrl, "", NoContext)
HttpResponseRedirect(url) == Response("redirect", url, "", NoContext)
render_to_response(template, kwvars) == Response("render", NoUrl, template, kwvars)
(* the class HttpResponseServerError itself, not an instance of it *)
HttpResponseServerError_class == Response("HttpResponseServerError class", NoUrl, "", NoContext)
(* an exception other than Http404 leaving the view *)
Raised(exc) == Response("exception", NoUrl, exc, NoContext)

Handled(req, resp, table, pk_counter, msgs, trace) ==
    /\ request' = req
    /\ response' = resp
    /\ companies' = table
    /\ next_pk' = pk_counter
    /\ messages' = msgs
    /\ calls' = trace

-----------------------------------------------------------------------------
(* list *)

list(user, page) ==
    LET req == Request("list", user, "GET", 0, EmptyPOST, page)
        trace == <<<<"all", "Company">>>>
    IN  IF shown_page(page, Len(objects_all(companies, next_pk))) = 0
        THEN Handled(req, Raised("EmptyPage"), companies, next_pk, <<>>, trace)
        ELSE Handled(req,
                     render_to_response("contacts/company/list.html",
                                        list_kwvars(companies, next_pk, page)),
                     companies, next_pk, <<>>, trace)

(* detail *)

detail(user, pk) ==
    LET req == Request("detail", user, "GET", pk, EmptyPOST, <<>>)
        trace == <<<<"get", "Company">>>>
    IN  IF DoesNotExist(companies, pk)
        THEN Handled(req, Http404, companies, next_pk, <<>>, trace)
        ELSE Handled(req,
                     render_to_response("contacts/company/detail.html",
                                        [object |-> pk]),
                     companies, next_pk, <<>>, trace)

-----------------------------------------------------------------------------
(* Forms *)

(* is_valid() of the company form and of each sub-record formset *)
is_valid(f, POST) ==
    IF f = "form" THEN POST.name \notin {Absent, ""}
    ELSE POST[FieldOf(f)] \notin {Absent, "bad"}

(* CompanyCreateForm(request.POST).save() *)
create_save(table, pk, POST) ==
    [k \in DOMAIN table \cup {pk} |->
        IF k = pk THEN NewCompany(POST.name) ELSE table[k]]

(* save() of the company form or of one formset bound to the instance *)
form_save(row, f, POST) == [row EXCEPT ![FieldOf(f)] = POST[FieldOf(f)]]

(* the saves of update, in the order the view runs them, up to the n-th *)
RECURSIVE run_saves(_, _, _)
run_saves(row, POST, n) ==
    IF n = 0 THEN row
    ELSE form_save(run_saves(row, POST, n - 1), Forms[n], POST)

(* form.is_valid() and phone_formset.is_valid() and ... (short-circuit) *)
update_is_valid(POST) == \A i \in 1..Len(Forms) : is_valid(Forms[i], POST)

(* the is_valid() calls the condition of update makes before it is decided *)
RECURSIVE is_valid_calls(_, _)
is_valid_calls(POST, i) ==
    IF i > Len(Forms) THEN <<>>
    ELSE IF is_valid(Forms[i], POST)
         THEN <<<<"is_valid", Forms[i]>>>> \o is_valid_calls(POST, i + 1)
         ELSE <<<<"is_valid", Forms[i]>>>>

save_calls(n) == [i \in 1..n |-> <<"save", Forms[i]>>]

(* the saves run in a transaction that a failure rolls back *)
saves_done_rollback(failAt) == IF failAt = 0 THEN Len(Forms) ELSE 0

(* how many saves of update complete when the failAt-th raises (0: none raises) *)
saves_done(failAt) == IF failAt = 0 THEN Len(Forms) ELSE failAt - 1

(* the forms a template shows errors for *)
form_errors(POST) == {Forms[i] : i \in {j \in 1..Len(Forms) : ~is_valid(Forms[j], POST)}}

(* new_data['delete_company'] == 'Yes' *)
delete_confirmed(POST) == POST.delete_company = "Yes"

-----------------------------------------------------------------------------
(* create *)

(* the form is built but never committed to the table *)
create_form_valid_uncommitted(req, POST) ==
    Handled(req, HttpResponseRedirect(get_absolute_url(next_pk)),
            companies, next_pk, <<"Company added">>,
            <<<<"is_valid", "form">>, <<"messages.success", "Company added">>>>)

(* c = company_form.save(); messages.success; redirect to c *)
create_form_valid(req, POST) ==
    Handled(req, HttpResponseRedirect(get_absolute_url(next_pk)),
            create_save(companies, next_pk, POST), next_pk + 1,
            <<"Company added">>,
            <<<<"is_valid", "form">>, <<"save", "form">>,
              <<"messages.success", "Company added">>>>)

create(user, method, POST) ==
    LET req == Request("create", user, method, 0, POST, <<>>)
    IN  IF ~has_perm(user, "contacts.add_company")
        THEN Handled(req, HttpResponseForbidden, companies, next_pk, <<>>, <<>>)
        ELSE IF method = "POST"
        THEN IF is_valid("form", POST)
             THEN create_form_valid(req, POST)
             ELSE Handled(req, HttpResponseServerError_class, companies, next_pk,
                          <<>>, <<<<"is_valid", "form">>>>)
        ELSE Handled(req,
                     render_to_response("contacts/company/create.html",
                                        [bound |-> FALSE, errors |-> {}]),
                     companies, next_pk, <<>>, <<>>)

(* update; failAt names the save that raises, 0 when the store takes them all *)

update(user, pk, method, POST, failAt) ==
    LET req == Request("update", user, method, pk, POST, <<>>)
        get == <<<<"get", "Company">>>>
        done == saves_done(failAt)
    IN  IF ~has_perm(user, "contacts.change_company")
        THEN Handled(req, HttpResponseForbidden, companies, next_pk, <<>>, <<>>)
        ELSE IF DoesNotExist(companies, pk)
        THEN Handled(req, Http404, companies, next_pk, <<>>, get)
        ELSE IF method = "POST"
        THEN IF update_is_valid(POST)
             THEN IF failAt = 0
                  THEN Handled(req, HttpResponseRedirect(get_absolute_url(pk)),
                               [companies EXCEPT ![pk] = run_saves(@, POST, done)],
                               next_pk, <<"Company updated">>,
                               get \o is_valid_calls(POST, 1) \o save_calls(done)
                                   \o <<<<"messages.success", "Company updated">>>>)
                  ELSE Handled(req, Raised("DatabaseError"),
                               [companies EXCEPT ![pk] = run_saves(@, POST, done)],
                               next_pk, <<>>,
                               get \o is_valid_calls(POST, 1) \o save_calls(done)
                                   \o <<<<"save raised", Forms[failAt]>>>>)
             ELSE Handled(req,
                          render_to_response("contacts/company/update.html",
                              [object |-> pk, bound |-> TRUE,
                               errors |-> form_errors(POST)]),
                          companies, next_pk, <<>>,
                          get \o is_valid_calls(POST, 1))
        ELSE Handled(req,
                     render_to_response("contacts/company/update.html",
                         [object |-> pk, bound |-> FALSE, errors |-> {}]),
                     companies, next_pk, <<>>, get)

(* delete *)

(* company.delete(); messages.success; redirect to the list *)
delete_yes(req, pk) ==
    Handled(req, HttpResponseRedirect(list_url), company_delete(companies, pk),
            next_pk, <<"Company deleted">>,
            <<<<"get", "Company">>, <<"delete", "Company">>,
              <<"messages.success", "Company deleted">>>>)

delete(user, pk, method, POST) ==
    LET req == Request("delete", user, method, pk, POST, <<>>)
        get == <<<<"get", "Company">>>>
    IN  IF ~has_perm(user, "contacts.delete_company")
        THEN Handled(req, HttpResponseForbidden, companies, next_pk, <<>>, <<>>)
        ELSE IF DoesNotExist(companies, pk)
        THEN Handled(req, Http404, companies, next_pk, <<>>, get)
        ELSE IF method = "POST"
        THEN IF POST.delete_company = Absent
             THEN Handled(req, Raised("MultiValueDictKeyError"), companies,
                          next_pk, <<>>, get)
             ELSE IF delete_confirmed(POST)
             THEN delete_yes(req, pk)
             ELSE Handled(req, HttpResponseRedirect(get_absolute_url(pk)),
                          companies, next_pk, <<>>, get)
        ELSE Handled(req,
                     render_to_response("contacts/company/delete.html",
                                        [object |-> pk]),
                     companies, next_pk, <<>>, get)

-----------------------------------------------------------------------------
(* Specifications *)

Init ==
    /\ companies = <<>>
    /\ next_pk = 1
    /\ request = NoRequest
    /\ response = NoResponse
    /\ messages = <<>>
    /\ calls = <<>>

(* the list view asks for no permission: an anonymous user calls it *)
ListRequest == \E page \in PageTexts : list({}, page)

DetailRequest == \E pk \in Pks : detail({}, pk)

CreateRequest ==
    /\ next_pk <= MaxPk
    /\ \E user \in Users :
          \/ create(user, "GET", EmptyPOST)
          \/ \E POST \in CreatePOSTs : create(user, "POST", POST)

(* an update; on a submission that reaches the saves the store takes them
   all (failAt = 0) or raises in one of them *)
UpdateRequest ==
    \E user \in Users, pk \in Pks :
        \/ update(user, pk, "GET", EmptyPOST, 0)
        \/ \E POST \in UpdatePOSTs : update(user, pk, "POST", POST, 0)
        \/ \E POST \in UpdatePOSTs, failAt \in 1..Len(Forms) :
              /\ has_perm(user, "contacts.change_company")
              /\ ~DoesNotExist(companies, pk)
              /\ update_is_valid(POST)
              /\ update(user, pk, "POST", POST, failAt)

DeleteRequest ==
    \E user \in Users, pk \in Pks :
        \/ delete(user, pk, "GET", EmptyPOST)
        \/ \E POST \in DeletePOSTs : delete(user, pk, "POST", POST)

(* the record views; the list view changes nothing they read and is checked
   by SpecList over larger tables *)
Next ==
    \/ DetailRequest
    \/ CreateRequest
    \/ UpdateRequest
    \/ DeleteRequest

Spec == Init /\ [][Next]_vars

(* the list view over stores of up to MaxCompanies companies *)
InitList ==
    /\ \E n \in 0..MaxCompanies : companies = [pk \in 1..n |-> NewCompany("Acme")]
    /\ next_pk = Len(companies) + 1
    /\ request = NoRequest
    /\ response = NoResponse
    /\ messages = <<>>
    /\ calls = <<>>

SpecList == InitList /\ [][ListRequest]_vars

-----------------------------------------------------------------------------
(* Properties *)

RequiredPerm(view) ==
    CASE view = "create" -> "contacts.add_company"
      [] view = "update" -> "contacts.change_company"
      [] view = "delete" -> "contacts.delete_company"

Guarded == {"create", "update", "delete"}

Lacks(req) == req.view \in Guarded /\ RequiredPerm(req.view) \notin req.user
Holds(req) == req.view \in Guarded /\ RequiredPerm(req.view) \in req.user

SubFields == {"phone", "email", "website", "address"}
Fields == {"name"} \cup SubFields

NameValidates(POST) == POST.name # Absent /\ POST.name # ""
AllFiveValidate(POST) ==
    NameValidates(POST) /\ \A f \in SubFields : POST[f] # Absent /\ POST[f] # "bad"

OthersUnchanged(pk) ==
    /\ DOMAIN companies' \ {pk} = DOMAIN companies \ {pk}
    /\ \A k \in DOMAIN companies \ {pk} : companies'[k] = companies[k]

StoreUnchanged == companies' = companies /\ next_pk' = next_pk

(* C1: a create, update or delete request by a user without the view's
   permission is answered forbidden before any lookup or form call, and the
   companies and their sub-records stay as they were. *)
C1_ForbiddenBeforeAnything ==
    [][Lacks(request') =>
          /\ response' = HttpResponseForbidden
          /\ calls' = <<>>
          /\ messages' = <<>>
          /\ StoreUnchanged]_vars

C1_Witness ==
    /\ request.view = "update"
    /\ request.method = "POST"
    /\ request.POST = ValidUpdatePOST
    /\ "contacts.change_company" \notin request.user
    /\ request.pk \in DOMAIN companies
    /\ response.kind = "forbidden"
    /\ companies[request.pk].name = "Acme"

(* C2: a permitted POST to delete for an existing company removes the record
   exactly when delete_company is "Yes"; every other POST, the one without
   the field included, leaves the record and redirects to its detail page. *)
C2_DeleteOnlyOnYes ==
    [][(/\ request'.view = "delete"
        /\ request'.method = "POST"
        /\ Holds(request')
        /\ request'.pk \in DOMAIN companies)
       => IF request'.POST.delete_company = "Yes"
          THEN request'.pk \notin DOMAIN companies'
          ELSE /\ StoreUnchanged
               /\ response' = HttpResponseRedirect(get_absolute_url(request'.pk))]_vars

(* C3: a permitted POST to update for an existing company persists the
   submitted name and all four sub-record sets when all five validate, and
   persists nothing when any of the five fails validation. *)
C3_UpdateAllOrNothing ==
    [][(/\ request'.view = "update"
        /\ request'.method = "POST"
        /\ Holds(request')
        /\ request'.pk \in DOMAIN companies)
       => IF AllFiveValidate(request'.POST)
          THEN /\ request'.pk \in DOMAIN companies'
               /\ \A f \in Fields :
                     companies'[request'.pk][f] = request'.POST[f]
               /\ OthersUnchanged(request'.pk)
          ELSE StoreUnchanged]_vars

(* C4: a permitted POST to create whose form validates adds exactly one
   record, redirects to that record's canonical URL, and changes no record
   that existed. *)
C4_CreateAddsOne ==
    [][(/\ request'.view = "create"
        /\ request'.method = "POST"
        /\ Holds(request')
        /\ NameValidates(request'.POST))
       => \E pk \in DOMAIN companies' \ DOMAIN companies :
             /\ DOMAIN companies' = DOMAIN companies \cup {pk}
             /\ Cardinality(DOMAIN companies') = Cardinality(DOMAIN companies) + 1
             /\ companies'[pk].name = request'.POST.name
             /\ \A k \in DOMAIN companies : companies'[k] = companies[k]
             /\ response' = HttpResponseRedirect(get_absolute_url(pk))]_vars

C4_Witness ==
    /\ request.view = "create"
    /\ request.method = "POST"
    /\ response.kind = "redirect"
    /\ response.url[2] \in DOMAIN companies
    /\ \E k \in DOMAIN companies : k # response.url[2] /\ companies[k].name = "Bolt"

LooksUp == {"detail", "update", "delete"}

(* C5 as claimed: every detail, update or delete request for a primary key
   that matches no company is answered not-found. *)
C5_NotFoundAlways ==
    [][(request'.view \in LooksUp /\ request'.pk \notin DOMAIN companies)
       => response' = Http404]_vars

(* C5, amended: a detail request, or an update or delete request by a user
   holding the view's permission, for a primary key that matches no company
   (one a confirmed delete removed included) is answered not-found and the
   store is unchanged; without the permission the answer is forbidden. *)
C5_NotFoundWhenPermitted ==
    [][(request'.view \in LooksUp /\ request'.pk \notin DOMAIN companies)
       => /\ StoreUnchanged
          /\ IF Lacks(request')
             THEN response' = HttpResponseForbidden
             ELSE response'.kind = "Http404"]_vars

C5_Witness ==
    /\ request.view = "delete"
    /\ request.method = "POST"
    /\ request.POST.delete_company = "Yes"
    /\ "contacts.delete_company" \in request.user
    /\ request.pk \notin DOMAIN companies
    /\ request.pk < next_pk
    /\ response.kind = "Http404"

TemplateOf(view) ==
    CASE view = "create" -> "contacts/company/create.html"
      [] view = "update" -> "contacts/company/update.html"

(* C6: a permitted POST with invalid input to create, or to update of an
   existing company, renders the page it came from with bound forms that
   carry errors, and on create nothing is persisted. *)
C6_InvalidRerenders ==
    [][(/\ request'.view \in {"create", "update"}
        /\ request'.method = "POST"
        /\ Holds(request')
        /\ request'.view = "update" => request'.pk \in DOMAIN companies
        /\ IF request'.view = "create" THEN ~NameValidates(request'.POST)
           ELSE ~AllFiveValidate(request'.POST))
       => /\ response'.kind = "render"
          /\ response'.template = TemplateOf(request'.view)
          /\ response'.context.bound
          /\ response'.context.errors # {}
          /\ request'.view = "create" => StoreUnchanged]_vars

(* a request the views answer by changing the store *)
MutatingRequest(req, table) ==
    /\ Holds(req)
    /\ req.method = "POST"
    /\ CASE req.view = "create" -> NameValidates(req.POST)
         [] req.view = "update" -> req.pk \in DOMAIN table /\ AllFiveValidate(req.POST)
         [] req.view = "delete" -> req.pk \in DOMAIN table /\ req.POST.delete_company = "Yes"

IsMutation(c) == c[1] \in {"save", "delete"}
IsNotification(c) == c[1] = "messages.success"

(* C7: a valid create, a valid update and a confirmed delete each emit one
   success notification, after their last save or delete, and answer with a
   redirect; no other request emits a notification or changes the store. *)
C7_NotifyAndRedirect ==
    [][request'.view \in Guarded =>
          IF MutatingRequest(request', companies)
          THEN /\ Len(messages') = 1
               /\ response'.kind = "redirect"
               /\ \E i \in 1..Len(calls') : IsMutation(calls'[i])
               /\ IsNotification(calls'[Len(calls')])
               /\ \A i \in 1..(Len(calls') - 1) : ~IsNotification(calls'[i])
          ELSE /\ messages' = <<>>
               /\ StoreUnchanged
               /\ \A i \in 1..Len(calls') :
                     ~IsMutation(calls'[i]) /\ ~IsNotification(calls'[i])]_vars

-----------------------------------------------------------------------------
(* Properties of the list view *)

Count == Cardinality(DOMAIN companies)

(* the last page of a list of n records, per_page to a page *)
LastPage(n) ==
    IF n = 0 THEN 1
    ELSE CHOOSE k \in 1..n : (k - 1) * per_page < n /\ n <= k * per_page

(* the companies at positions from..to of the list, in order *)
Records(from, to) ==
    LET all == objects_all(companies, next_pk)
    IN  [i \in 1..(to - from + 1) |-> all[from + i - 1]]

InvalidPage(text) ==
    \/ ~ParseInt(text).ok
    \/ ParseInt(text).n <= 0
    \/ ParseInt(text).n > LastPage(Count)

(* C8: for a page argument that is no integer, is <= 0 or lies beyond the
   last page, and for any number of companies, zero included, the list view
   renders the records of the last page and raises nothing. *)
C8_InvalidPageShowsLast ==
    (request.view = "list" /\ InvalidPage(request.page))
    => /\ response.kind = "render"
       /\ response.context.object_list =
             Records(per_page * (LastPage(Count) - 1) + 1, Count)

C8_Witness ==
    /\ request.view = "list"
    /\ request.page = <<"-", "1">>
    /\ Count = 2 * per_page + 1
    /\ response.kind = "render"
    /\ Len(response.context.object_list) = 1

(* C9: for a valid page p of n companies, start_index and end_index are the
   positions of the first and last record shown, has_next holds exactly when
   p is not the last page, has_previous exactly when p is not the first, and
   next_page_number / previous_page_number are p+1 / p-1 when that page
   exists and None otherwise. *)
C9_PageContext ==
    (request.view = "list" /\ ~InvalidPage(request.page))
    => LET p == ParseInt(request.page).n
           ctx == response.context
       IN  /\ response.kind = "render"
           /\ IF Count = 0
              THEN ctx.object_list = <<>>
              ELSE /\ 1 <= ctx.start_index
                   /\ ctx.start_index <= ctx.end_index
                   /\ ctx.end_index <= Count
                   /\ ctx.start_index = per_page * (p - 1) + 1
                   /\ ctx.object_list = Records(ctx.start_index, ctx.end_index)
                   /\ ctx.end_index = Count \/ ctx.end_index = ctx.start_index + per_page - 1
           /\ ctx.has_next <=> p # LastPage(Count)
           /\ ctx.has_previous <=> p # 1
           /\ ctx.next_page_number = IF p < LastPage(Count) THEN <<p + 1>> ELSE None
           /\ ctx.previous_page_number = IF p > 1 THEN <<p - 1>> ELSE None

C9_Witness ==
    /\ request.view = "list"
    /\ request.page = <<"2">>
    /\ Count = 2 * per_page + 1
    /\ response.context.start_index = per_page + 1
    /\ response.context.end_index = 2 * per_page
    /\ response.context.has_next
    /\ response.context.has_previous
    /\ response.context.next_page_number = <<3>>
    /\ response.context.previous_page_number = <<1>>

-----------------------------------------------------------------------------
(* Properties of an update in which a save raises *)

FormIndex(f) == CHOOSE i \in 1..Len(Forms) : Forms[i] = f

SaveRaised == calls' # <<>> /\ calls'[Len(calls')][1] = "save raised"

SavesOf(trace) == SelectSeq(trace, LAMBDA c : c[1] = "save")

(* C10: the saves of update run in the order form, phone, email, website,
   address; when the k-th raises, what the saves before it wrote stays
   written, the later parts stay as they were, and the request ends with no
   success notification and no redirect. *)
C10_PartialSaveStays ==
    [][request'.view = "update" =>
          /\ \A i \in 1..Len(SavesOf(calls')) : SavesOf(calls')[i] = <<"save", Forms[i]>>
          /\ SaveRaised =>
                LET k == FormIndex(calls'[Len(calls')][2])
                    pk == request'.pk
                IN  /\ Len(SavesOf(calls')) = k - 1
                    /\ pk \in DOMAIN companies /\ pk \in DOMAIN companies'
                    /\ \A i \in 1..Len(Forms) :
                          companies'[pk][FieldOf(Forms[i])] =
                             IF i < k THEN request'.POST[FieldOf(Forms[i])]
                             ELSE companies[pk][FieldOf(Forms[i])]
                    /\ OthersUnchanged(pk)
                    /\ messages' = <<>>
                    /\ response'.kind = "exception"]_vars

C10_Witness ==
    /\ request.view = "update"
    /\ response.kind = "exception"
    /\ calls[Len(calls)] = <<"save raised", "website_formset">>
    /\ companies[request.pk].name = "Bolt"
    /\ companies[request.pk].email = "new"
    /\ companies[request.pk].website = NoRecords
    /\ companies[request.pk].address = NoRecords
    /\ messages = <<>>

====
